---- MODULE Spec2Model ----
(***************************************************************************)
(* Keyword spotter: the bounded audio queue between the capture callback   *)
(* and the consumer (audio_recorder.py), and the classification loop that  *)
(* pulls frames through it and debounces detections (model.py).            *)
(*                                                                         *)
(* Spec follows the recorder used directly, LoopSpec a classification       *)
(* session whose callback is invoked once per captured chunk, SessionSpec   *)
(* the session on the stream as __enter__ opens it, DetectSpec the          *)
(* candidate selection of one frame, ClearSpec clear_queue, PreloadSpec     *)
(* get_audio on a pre-loaded queue with its samples, and ExtractorSpec the  *)
(* construction, rolling buffer and sample positions of the extractor.      *)
(*                                                                         *)
(* Time is counted in chunk intervals (frames_per_chunk /                  *)
(* raw_audio_sample_rate_hz seconds): during one interval the hardware     *)
(* backend delivers at most one chunk.  The consumer suspends only inside  *)
(* queue.get, so every other consumer step takes no time.                  *)
(***************************************************************************)
EXTENDS Integers, Sequences, FiniteSets, TLC

VARIABLES
  downsample_factor,  \* AudioRecorder._downsample_factor
  raw_audio_queue,    \* AudioRecorder._raw_audio_queue: <<in_data, timestamp>> records
  now,                \* elapsed chunk intervals (the value time.time() reads)
  produced,           \* number of chunks the backend has handed to the callback
  enq,                \* outcome of the latest _enqueue_raw_audio call
  accepted,           \* history: in_data of the chunks put in the queue, in order
  cpc,                \* consumer position inside AudioRecorder
  need,               \* get_audio: num_audio_chunks of the running call
                      \* (clear_queue: the qsize() it read when called)
  num_audio_frames,   \* get_audio: the argument of the running (or latest) call
  got,                \* get_audio: the chunks the running call has dequeued
  waited,             \* chunk intervals the pending queue.get has waited
  callTicks,          \* chunk intervals elapsed since the running call began
  callPuts,           \* chunks enqueued since the running call began
  ret,                \* outcome of the latest get_audio call
  audio,              \* get_audio: the array returned (followed in PreloadSpec only)
  delivered,          \* history: in_data of the chunks successful get_audio calls returned
  discarded,          \* history: in_data of the chunks dequeued by calls that timed out
  lpc,                \* position of classify_audio ("none": no session)
  stream,             \* AudioRecorder._stream: "none", "active" or "stopped"
  exc,                \* the exception classify_audio ended with, as its caller sees it
  max_input_channels, \* device_info["maxInputChannels"] of the selected device
  captured,           \* number of chunks the backend captured on the open stream
  extractor,          \* outcome of Uint8LogMelFeatureExtractor(num_frames_hop)
  spectrogram,        \* Uint8LogMelFeatureExtractor._spectrogram: its rows
  frame_shape,        \* shape of the frame get_next_spectrogram returned last
  audio_buffer_first, \* stream position of _audio_buffer[0], in output-rate samples
  pulled,             \* output-rate samples the extractor has pulled so far
  first_window,       \* history: stream position of each call's first analysis window
  frame_refs,         \* the array each get_next_spectrogram call returned (0: _spectrogram)
  frames_out,         \* the rows the returned arrays hold now, by array
  num_frames_hop,     \* Uint8LogMelFeatureExtractor.frame_hop_spectra
  audio_buffer_len,   \* len(Uint8LogMelFeatureExtractor._audio_buffer)
  commands,           \* command table: label index -> [key, conf]
  result_callback,    \* a ResultSink is configured
  dectection_callback,\* a CommandSink is configured
  result,             \* score vector of the latest processed frame
  top3,               \* np.argsort(-result)[:3] of the latest processed frame
  detection,          \* classify_audio: detection of the latest processed frame
  last_detection,     \* classify_audio: last_detection
  sink_calls,         \* keys handed to the CommandSink in the latest processed frame
  callbacks,          \* the sink invocations of the latest processed frame, in call order
  frames,             \* number of frames processed
  result_calls,       \* number of ResultSink invocations
  cands,              \* history: detection of each processed frame
  dispatches,         \* history: keys handed to the CommandSink
  column,             \* one mel-bin column of the array get_next_spectrogram normalises
  frame_column,       \* that column of the frame returned
  commands_file,      \* read_commands: the lines of the file, each split at ','
  read_outcome,       \* read_commands: "none", "ok" or the exception raised
  output_data,        \* output_tensor: dtype and values of the output tensor
  output_details      \* output_tensor: the quantization the engine reports

queueVars == <<raw_audio_queue, now, produced, enq, accepted>>
recVars   == <<cpc, need, num_audio_frames, got, waited, callTicks, callPuts, ret, delivered, discarded>>
confVars  == <<num_frames_hop, commands, result_callback, dectection_callback>>
devVars   == <<max_input_channels, captured>>
sampleVars == <<audio>>
extVars   == <<extractor, spectrogram, frame_shape, audio_buffer_first, pulled,
               first_window, frame_refs, frames_out>>
loopVars  == <<lpc, stream, exc, audio_buffer_len, result, top3, detection,
               last_detection, sink_calls, callbacks, frames, result_calls, cands, dispatches>>
argVars   == <<column, frame_column, commands_file, read_outcome, output_data,
               output_details>>
vars      == <<downsample_factor, queueVars, recVars, confVars, devVars, sampleVars, extVars, argVars, loopVars>>

----------------------------------------------------------------------------
(* Bounds of the model *)

\* Queue capacity: AudioRecorder.max_queue_chunks (1200 in the source), scaled.
max_queue_chunks == 3

\* The clock stops after this many chunk intervals.
MaxTime == 7

\* A classification session is followed for this many chunk intervals.
MaxSessionTime == 5

\* Number of labels, the reserved label 0 ("negative") included.
NumLabels == 4

\* A session is followed for this many processed frames.
MaxFrames == 3

(* Program constants *)
frames_per_chunk == 1024
timeout_factor == 4

\* num_audio_frames arguments tried by a direct caller of get_audio.
NumAudioFrames == {-464, 0, 400, 1025}

\* downsample_factor values classify_audio constructs the recorder with.
DownsampleFactors == {1, 3}

Min(a, b) == IF a < b THEN a ELSE b

----------------------------------------------------------------------------
(* queue.Queue as AudioRecorder uses it *)

\* Mutant: the capacity test is off by one.
QueueFull_OffByOne(q) == Len(q) > max_queue_chunks

\* queue.Queue(self.max_queue_chunks): a put finds the queue full.
QueueFull(q) == Len(q) >= max_queue_chunks

\* Mutant: a put on a full queue drops the oldest chunk to make room.
PutNoWait_DropOldest(q, item) ==
  IF QueueFull(q) THEN Append(Tail(q), item) ELSE Append(q, item)

\* self._raw_audio_queue.put(item, block=False): the queue afterwards.
PutNoWait(q, item) == IF QueueFull(q) THEN q ELSE Append(q, item)

\* Mutant: get returns the newest chunk (LIFO).
QueueGetItem_Newest(q) == q[Len(q)]

\* self._raw_audio_queue.get(timeout=timeout): the item returned.
QueueGetItem(q) == Head(q)

\* self._raw_audio_queue.get(timeout=timeout): the queue afterwards.
QueueGetRest(q) == Tail(q)

----------------------------------------------------------------------------
(* AudioRecorder *)

\* int(math.ceil(x / y)) for y > 0 (x may be negative: the ceiling of a
\* negative quotient rounds towards zero).
CeilDiv(x, y) == -((-x) \div y)

\* Mutant: the chunk count forgets the downsample factor.
NumAudioChunks_IgnoreDownsample(frames_wanted) ==
  LET n == CeilDiv(frames_wanted, frames_per_chunk)
  IN  IF n < 1 THEN 1 ELSE n

\* Mutant: the chunk count is rounded down instead of up.
NumAudioChunks_Floor(frames_wanted) ==
  LET n == (frames_wanted * downsample_factor) \div frames_per_chunk
  IN  IF n < 1 THEN 1 ELSE n

\* get_audio: the number of chunks to dequeue.
NumAudioChunks(frames_wanted) ==
  LET n == CeilDiv(frames_wanted * downsample_factor, frames_per_chunk)
  IN  IF n < 1 THEN 1 ELSE n

\* len(audio) after np.concatenate(chunks)[::downsample_factor].
AudioLen(chunks) ==
  CeilDiv(Len(chunks) * frames_per_chunk, downsample_factor)

NoReturn == [status |-> "none", chunks |-> <<>>, samples |-> 0,
             first_timestamp |-> 0, last_timestamp |-> 0]

\* get_audio: the tuple (audio, timestamps[0], timestamps[-1]) returned.
GetAudioResult(chunks) ==
  [status |-> "ok", chunks |-> chunks, samples |-> AudioLen(chunks),
   first_timestamp |-> chunks[1].timestamp,
   last_timestamp |-> chunks[Len(chunks)].timestamp]

\* get_audio: queue.Empty is turned into TimeoutError ("Audio capture timed out").
CaptureTimeout == [status |-> "CaptureTimeout", chunks |-> <<>>, samples |-> 0,
                   first_timestamp |-> 0, last_timestamp |-> 0]

\* The raw data of a sequence of queue items.
InData(chunks) == [i \in 1..Len(chunks) |-> chunks[i].in_data]

\* A pending queue.get waits while the queue is empty.
Blocked == cpc = "get_audio" /\ Len(got) < need /\ raw_audio_queue = <<>>

\* One chunk interval passes.
Elapse ==
  /\ now < MaxTime
  /\ now' = now + 1
  /\ waited' = IF Blocked THEN Min(waited + 1, timeout_factor) ELSE waited
  /\ callTicks' = IF cpc = "get_audio" THEN callTicks + 1 ELSE callTicks

\* The body of _enqueue_raw_audio(in_data).
PutRawAudio ==
  /\ produced' = produced + 1
  /\ LET item == [in_data |-> produced + 1, timestamp |-> now + 1]
     IN  /\ raw_audio_queue' = PutNoWait(raw_audio_queue, item)
         /\ IF QueueFull(raw_audio_queue)
              THEN /\ enq' = "Overflow"   \* raise TimeoutError("Raw audio buffer full.")
                   /\ UNCHANGED <<accepted, callPuts>>
              ELSE /\ enq' = "ok"         \* return None, pyaudio.paContinue
                   /\ accepted' = Append(accepted, item.in_data)
                   /\ callPuts' = IF cpc # "idle" THEN callPuts + 1 ELSE callPuts

\* _enqueue_raw_audio(in_data): the hardware callback, once per chunk interval.
EnqueueRawAudio ==
  /\ Elapse
  /\ PutRawAudio
  /\ UNCHANGED <<downsample_factor, cpc, need, num_audio_frames, got, ret, delivered,
                 discarded>>
  /\ UNCHANGED <<confVars, devVars, sampleVars, extVars, argVars, loopVars>>

\* A chunk interval in which the backend delivers nothing.
Silence ==
  /\ Elapse
  /\ UNCHANGED <<downsample_factor, raw_audio_queue, produced, enq, accepted,
                 cpc, need, num_audio_frames, got, callPuts, ret, delivered,
                 discarded>>
  /\ UNCHANGED <<confVars, devVars, sampleVars, extVars, argVars, loopVars>>

\* get_audio(num_audio_frames), up to the first queue.get.
BeginGetAudio(n) ==
  /\ cpc' = "get_audio"
  /\ num_audio_frames' = n
  /\ need' = NumAudioChunks(n)
  /\ got' = <<>>
  /\ waited' = 0
  /\ callTicks' = 0
  /\ callPuts' = 0

GetAudio(n) ==
  /\ lpc = "none"
  /\ cpc = "idle"
  /\ BeginGetAudio(n)
  /\ UNCHANGED <<downsample_factor, queueVars, ret, delivered, discarded>>
  /\ UNCHANGED <<confVars, devVars, sampleVars, extVars, argVars, loopVars>>

\* _get_chunk(timeout): queue.get finds a chunk.
GetChunk ==
  /\ cpc = "get_audio"
  /\ Len(got) < need
  /\ raw_audio_queue # <<>>
  /\ got' = Append(got, QueueGetItem(raw_audio_queue))
  /\ raw_audio_queue' = QueueGetRest(raw_audio_queue)
  /\ waited' = 0
  /\ UNCHANGED <<downsample_factor, now, produced, enq, accepted,
                 cpc, need, num_audio_frames, callTicks, callPuts, ret,
                 delivered, discarded>>
  /\ UNCHANGED <<confVars, devVars, sampleVars, extVars, argVars, loopVars>>

\* Mutant: the timeout is one chunk interval instead of timeout_factor.
TimedOut_OneInterval == Blocked /\ waited >= 1

\* _get_chunk(timeout): queue.get waited timeout_factor chunk intervals.
TimedOut == Blocked /\ waited >= timeout_factor

\* Mutant: a call that times out puts the chunks it dequeued back in the queue.
RaiseCaptureTimeout_Requeue ==
  /\ TimedOut
  /\ ret' = CaptureTimeout
  /\ raw_audio_queue' = got \o raw_audio_queue
  /\ got' = <<>>
  /\ waited' = 0
  /\ UNCHANGED <<downsample_factor, now, produced, enq, accepted, need,
                 num_audio_frames, callTicks, callPuts, delivered, discarded>>

\* get_audio: queue.Empty -> TimeoutError; the chunks dequeued so far are dropped.
RaiseCaptureTimeout ==
  /\ TimedOut
  /\ ret' = CaptureTimeout
  /\ discarded' = discarded \o InData(got)
  /\ got' = <<>>
  /\ waited' = 0
  /\ UNCHANGED <<downsample_factor, queueVars, need, num_audio_frames, callTicks,
                 callPuts, delivered>>

GetAudioTimeout ==
  /\ lpc = "none"
  /\ RaiseCaptureTimeout
  /\ cpc' = "idle"
  /\ UNCHANGED <<confVars, devVars, sampleVars, extVars, argVars, loopVars>>

\* get_audio: all chunks dequeued; concatenate, decimate, return.
ReturnAudio ==
  /\ cpc = "get_audio"
  /\ Len(got) = need
  /\ ret' = GetAudioResult(got)
  /\ delivered' = delivered \o InData(got)
  /\ got' = <<>>
  /\ UNCHANGED <<downsample_factor, queueVars, need, num_audio_frames, waited,
                 callTicks, callPuts, discarded>>

GetAudioReturn ==
  /\ lpc = "none"
  /\ ReturnAudio
  /\ cpc' = "idle"
  /\ UNCHANGED <<confVars, devVars, sampleVars, extVars, argVars, loopVars>>

\* The rolling buffer and the sample positions of the extractor are followed
\* in ExtractorSpec only.
ExtractorNotFollowed ==
  /\ extractor = "none"
  /\ spectrogram = <<>>
  /\ frame_shape = <<0, 0>>
  /\ audio_buffer_first = 0
  /\ pulled = 0
  /\ first_window = <<>>
  /\ frame_refs = <<>>
  /\ frames_out = <<>>

\* The normalisation of a column, read_commands and output_tensor are
\* followed on their own, in NormalizeSpec, CommandSpec and OutputSpec.
NormalizeNotFollowed ==
  /\ column = <<>>
  /\ frame_column = <<>>

ReadCommandsNotFollowed ==
  /\ commands_file = <<>>
  /\ read_outcome = "none"

NoQuantization == [present |-> FALSE, scale |-> 0, zero_point |-> 0]

OutputTensorNotFollowed ==
  /\ output_data = [dtype |-> "none", values |-> <<>>]
  /\ output_details = [quantization |-> NoQuantization]

FunctionsNotFollowed ==
  /\ NormalizeNotFollowed
  /\ ReadCommandsNotFollowed
  /\ OutputTensorNotFollowed

\* AudioRecorder.__init__: the recorder right after construction.
RecorderInit ==
  /\ downsample_factor \in DownsampleFactors
  /\ raw_audio_queue = <<>>
  /\ now = 0
  /\ produced = 0
  /\ enq = "none"
  /\ accepted = <<>>
  /\ cpc = "idle"
  /\ need = 0
  /\ num_audio_frames = 0
  /\ got = <<>>
  /\ waited = 0
  /\ callTicks = 0
  /\ callPuts = 0
  /\ ret = NoReturn
  /\ delivered = <<>>
  /\ discarded = <<>>
  /\ captured = 0
  /\ audio = <<>>

\* The recorder used directly: no classification session.
Init ==
  /\ RecorderInit
  /\ ExtractorNotFollowed
  /\ max_input_channels = 1
  /\ num_frames_hop = 33
  /\ commands = <<>>
  /\ result_callback = FALSE
  /\ dectection_callback = FALSE
  /\ lpc = "none"
  /\ stream = "none"
  /\ exc = "none"
  /\ audio_buffer_len = 0
  /\ result = <<>>
  /\ top3 = <<>>
  /\ detection = -1
  /\ last_detection = -1
  /\ sink_calls = <<>>
  /\ callbacks = <<>>
  /\ FunctionsNotFollowed
  /\ frames = 0
  /\ result_calls = 0
  /\ cands = <<>>
  /\ dispatches = <<>>

Next ==
  \/ EnqueueRawAudio
  \/ Silence
  \/ \E n \in NumAudioFrames : GetAudio(n)
  \/ GetChunk
  \/ GetAudioTimeout
  \/ GetAudioReturn

Spec == Init /\ [][Next]_vars

----------------------------------------------------------------------------
(* clear_queue, concurrent with the callback *)

\* Mutant: the loop dequeues without testing the queue first.
QueueEmpty_NoTest(q) == FALSE

\* self._raw_audio_queue.empty().
QueueEmpty(q) == Len(q) = 0

\* clear_queue is called; line 183 reads qsize() for the log.
ClearQueue ==
  /\ lpc = "none"
  /\ cpc = "idle"
  /\ cpc' = "clear_queue"
  /\ need' = Len(raw_audio_queue)
  /\ got' = <<>>
  /\ waited' = 0
  /\ callTicks' = 0
  /\ callPuts' = 0
  /\ UNCHANGED <<downsample_factor, queueVars, num_audio_frames, ret, delivered,
                 discarded>>
  /\ UNCHANGED <<confVars, devVars, sampleVars, extVars, argVars, loopVars>>

\* Line 184: the loop test; the call returns when the queue is empty.  The
\* chunks the call dequeued are dropped.
ClearTest ==
  /\ cpc = "clear_queue"
  /\ IF QueueEmpty(raw_audio_queue)
       THEN /\ cpc' = "idle"
            /\ discarded' = discarded \o InData(got)
            /\ got' = <<>>
       ELSE /\ cpc' = "clear_get"
            /\ UNCHANGED <<discarded, got>>
  /\ UNCHANGED <<downsample_factor, queueVars, need, num_audio_frames, waited,
                 callTicks, callPuts, ret, delivered>>
  /\ UNCHANGED <<confVars, devVars, sampleVars, extVars, argVars, loopVars>>

\* Line 185: self._raw_audio_queue.get(), without timeout: it returns once
\* the queue holds a chunk and waits as long as it does not.
ClearGet ==
  /\ cpc = "clear_get"
  /\ raw_audio_queue # <<>>
  /\ got' = Append(got, QueueGetItem(raw_audio_queue))
  /\ raw_audio_queue' = QueueGetRest(raw_audio_queue)
  /\ cpc' = "clear_queue"
  /\ UNCHANGED <<downsample_factor, now, produced, enq, accepted, need,
                 num_audio_frames, waited, callTicks, callPuts, ret, delivered,
                 discarded>>
  /\ UNCHANGED <<confVars, devVars, sampleVars, extVars, argVars, loopVars>>

\* The get of line 185 is waiting for a chunk.
ClearBlocked == cpc = "clear_get" /\ raw_audio_queue = <<>>

ClearNext ==
  \/ EnqueueRawAudio
  \/ Silence
  \/ ClearQueue
  \/ ClearTest
  \/ ClearGet

\* The consumer thread is scheduled: a step it can take, it takes.
ClearSpec ==
  Init /\ [][ClearNext]_vars /\ WF_vars(ClearTest) /\ WF_vars(ClearGet)

----------------------------------------------------------------------------
(* get_audio on a pre-loaded queue: the samples of lines 228-233 *)

\* Arguments and downsample factors tried on the pre-loaded queue.
PreloadFrames == {1, 2, 341, 342, 512, 513, 1023, 1024, 1025, 1536, 1537,
                  2048, 2049, 3071, 3072, 3073, 4096}
PreloadFactors == {1, 2, 3, 4}

\* np.fromstring(raw_data, int16).reshape(-1, 1): the samples of a chunk.
\* Chunks are numbered in capture order; a sample is identified by its
\* position in the captured stream, so no two samples are equal.
ChunkSamples(in_data) ==
  [j \in 1..frames_per_chunk |-> (in_data - 1) * frames_per_chunk + (j - 1)]

\* np.concatenate(chunks).
RECURSIVE Concatenate(_)
Concatenate(chunks) ==
  IF chunks = <<>> THEN <<>>
  ELSE ChunkSamples(Head(chunks).in_data) \o Concatenate(Tail(chunks))

\* Mutant: each output sample is the mean of the stride it starts.
Decimate_Averaging(a, k) ==
  [i \in 1..CeilDiv(Len(a), k) |->
     LET lo == (i - 1) * k + 1
         hi == Min(i * k, Len(a))
     IN  (a[lo] + a[hi]) \div 2]

\* Lines 229-230: audio[::downsample_factor] unless the factor is 1.
Decimate(a, k) ==
  IF k # 1 THEN [i \in 1..CeilDiv(Len(a), k) |-> a[(i - 1) * k + 1]] ELSE a

\* audio * 0.5: each value as a fraction over 2.
Attenuate(a) == [i \in 1..Len(a) |-> [num |-> a[i], den |-> 2]]

\* get_audio, lines 228-233: the array returned for the dequeued chunks.
Audio(chunks) ==
  Attenuate(Decimate(Concatenate(chunks), downsample_factor))

\* The queue holds exactly ceil(n * downsample / frames_per_chunk) chunks,
\* enqueued one per chunk interval, for the n get_audio will be called with.
PreloadInit ==
  /\ ExtractorNotFollowed
  /\ downsample_factor \in PreloadFactors
  /\ num_audio_frames \in PreloadFrames
  /\ CeilDiv(num_audio_frames * downsample_factor, frames_per_chunk)
        <= max_queue_chunks
  /\ produced = CeilDiv(num_audio_frames * downsample_factor, frames_per_chunk)
  /\ raw_audio_queue = [i \in 1..produced |-> [in_data |-> i, timestamp |-> i]]
  /\ accepted = [i \in 1..produced |-> i]
  /\ now = produced
  /\ enq = "ok"
  /\ cpc = "idle"
  /\ need = 0
  /\ got = <<>>
  /\ waited = 0
  /\ callTicks = 0
  /\ callPuts = 0
  /\ ret = NoReturn
  /\ delivered = <<>>
  /\ discarded = <<>>
  /\ captured = 0
  /\ audio = <<>>
  /\ max_input_channels = 1
  /\ num_frames_hop = 33
  /\ commands = <<>>
  /\ result_callback = FALSE
  /\ dectection_callback = FALSE
  /\ lpc = "none"
  /\ stream = "none"
  /\ exc = "none"
  /\ audio_buffer_len = 0
  /\ result = <<>>
  /\ top3 = <<>>
  /\ detection = -1
  /\ last_detection = -1
  /\ sink_calls = <<>>
  /\ callbacks = <<>>
  /\ FunctionsNotFollowed
  /\ frames = 0
  /\ result_calls = 0
  /\ cands = <<>>
  /\ dispatches = <<>>

\* The one call get_audio(n).
PreloadGetAudio ==
  /\ ret = NoReturn
  /\ GetAudio(num_audio_frames)

\* get_audio returns the array.
PreloadReturn ==
  /\ lpc = "none"
  /\ ReturnAudio
  /\ cpc' = "idle"
  /\ audio' = Audio(got)
  /\ UNCHANGED <<confVars, devVars, extVars, argVars, loopVars>>

\* Nothing is produced during the call; time may pass.
PreloadNext ==
  \/ PreloadGetAudio
  \/ GetChunk
  \/ PreloadReturn
  \/ Silence

PreloadSpec == PreloadInit /\ [][PreloadNext]_vars

----------------------------------------------------------------------------
(* Uint8LogMelFeatureExtractor: the sample counts of _get_next_spectra *)

\* recorder.audio_sample_rate_hz: raw rate // downsample_factor, for the raw
\* rates 16000 (factor 1) and 48000 (factor 3) classify_audio supports.
audio_sample_rate_hz == (16000 * downsample_factor) \div downsample_factor

\* spectrogram_window_length_seconds and spectrogram_hop_length_seconds, in ms.
spectrogram_window_length_ms == 25
spectrogram_hop_length_ms == 10

\* np.ceil of the double product (0.025 + (h - 1) * 0.010) * 16000 is one
\* above the exact value for these hop counts (0.07500000000000001 * 16000).
FloatCeilExcess(h) == IF h \in {6, 9, 33} THEN 1 ELSE 0

\* _get_next_spectra: required_num_samples.
RequiredNumSamples(h) ==
  CeilDiv((spectrogram_window_length_ms + (h - 1) * spectrogram_hop_length_ms)
            * audio_sample_rate_hz, 1000) + FloatCeilExcess(h)

\* _spectrogram_underlap_samples.
UnderlapSamples ==
  ((spectrogram_window_length_ms - spectrogram_hop_length_ms)
     * audio_sample_rate_hz) \div 1000

\* Mutant: only the underlap is carried, the samples after the analysed span
\* are dropped (audio_samples[required - underlap:required]).
CarriedLen_ExactUnderlap(total, h) ==
  IF total >= RequiredNumSamples(h) THEN UnderlapSamples ELSE 0

\* len(audio_samples[required_num_samples - underlap:]).
CarriedLen(total, h) ==
  LET start == RequiredNumSamples(h) - UnderlapSamples
  IN  IF total > start THEN total - start ELSE 0

----------------------------------------------------------------------------
(* Uint8LogMelFeatureExtractor: construction and the rolling buffer *)

frame_length_spectra == 198
num_mel_bins == 32

\* num_frames_hop arguments tried: the divisors of 198, and values that are
\* zero, negative, not divisors, or larger than 198.
HopArguments == {-33, -4, -1, 0, 1, 2, 3, 4, 5, 6, 9, 11, 18, 22, 33, 66, 99,
                 100, 198, 200, 396}

\* a % b in Python for b # 0: the result has the sign of the divisor.
PyMod(a, b) == IF b > 0 THEN a % b ELSE -((-a) % (-b))

\* _clear_buffers: np.zeros((frame_length_spectra, num_mel_bins)); a row is
\* named by the call and the spectrum it came from (0, 0: a row of zeros).
ZeroRow == [call |-> 0, row |-> 0]
ZeroSpectrogram == [i \in 1..frame_length_spectra |-> ZeroRow]

\* Mutant: the buffer is rebound to the rows kept instead of shifted in place.
ShiftLeft_DropRows(s, h) == SubSeq(s, h + 1, Len(s))

\* Lines 142-143: self._spectrogram[:-h] = self._spectrogram[h:], in place.
ShiftLeft(s, h) ==
  [i \in 1..Len(s) |-> IF i <= Len(s) - h THEN s[i + h] ELSE s[i]]

\* Mutant: the new spectra are written at the head of the buffer.
WriteTail_Head(s, new) ==
  [i \in 1..Len(s) |-> IF i <= Len(new) THEN new[i] ELSE s[i]]

\* Lines 144-145: self._spectrogram[-h:] = the h new spectra, in place.
WriteTail(s, new) ==
  [i \in 1..Len(s) |->
     IF i > Len(s) - Len(new) THEN new[i - (Len(s) - Len(new))] ELSE s[i]]

\* Arrays are told apart by a reference: 0 is self._spectrogram, k the array
\* allocated for the frame of call k.
BufferRef == 0

\* Mutant: the working array is a view of the rolling buffer.
CopyRef_View(src, fresh) == src

\* Line 149: self._spectrogram.copy() is a new array.
CopyRef(src, fresh) == fresh

\* Line 155: np.maximum(0, np.minimum(255, work)) is a new array and
\* astype(np.uint8) copies it: the frame returned is a new array.
ReturnedRef(work, fresh) == fresh

\* Lines 150-154: the arithmetic done in place on the working array.
Normalized(rows) ==
  [i \in 1..Len(rows) |->
     [call |-> rows[i].call, row |-> rows[i].row, form |-> "normalized"]]

\* Line 155: the clipped values as uint8.
Quantized(rows) ==
  [i \in 1..Len(rows) |->
     [call |-> rows[i].call, row |-> rows[i].row, form |-> "uint8"]]

\* What a caller stores in a row of an array it was handed.
WrittenRow == [call |-> -1, row |-> -1, form |-> "written"]

\* _get_next_spectra(recorder, h) of call c: h spectra (the assert of line 126).
NewSpectra(c, h) == [j \in 1..h |-> [call |-> c, row |-> j]]

\* classify_audio has built the recorder; the extractor is not built yet.
ExtractorInit ==
  /\ RecorderInit
  /\ max_input_channels = 1
  /\ num_frames_hop \in HopArguments
  /\ extractor = "none"
  /\ spectrogram = <<>>
  /\ frame_shape = <<0, 0>>
  /\ audio_buffer_first = 0
  /\ pulled = 0
  /\ first_window = <<>>
  /\ frame_refs = <<>>
  /\ frames_out = <<>>
  /\ commands = <<>>
  /\ result_callback = FALSE
  /\ dectection_callback = FALSE
  /\ lpc = "none"
  /\ stream = "active"
  /\ exc = "none"
  /\ audio_buffer_len = 0
  /\ result = <<>>
  /\ top3 = <<>>
  /\ detection = -1
  /\ last_detection = -1
  /\ sink_calls = <<>>
  /\ callbacks = <<>>
  /\ FunctionsNotFollowed
  /\ frames = 0
  /\ result_calls = 0
  /\ cands = <<>>
  /\ dispatches = <<>>

\* Uint8LogMelFeatureExtractor(num_frames_hop): __init__, lines 56-67.
Construct ==
  /\ extractor = "none"
  /\ IF num_frames_hop = 0
       THEN /\ extractor' = "ZeroDivisionError"    \* 198 % 0
            /\ UNCHANGED spectrogram
       ELSE IF PyMod(frame_length_spectra, num_frames_hop) # 0
              THEN /\ extractor' = "ValueError"
                   /\ UNCHANGED spectrogram
              ELSE /\ extractor' = "constructed"
                   /\ spectrogram' = ZeroSpectrogram
  /\ UNCHANGED <<downsample_factor, queueVars, recVars, confVars, devVars,
                 sampleVars, argVars, frame_shape, audio_buffer_first, pulled,
                 first_window, frame_refs, frames_out, loopVars>>

\* get_next_spectrogram(recorder) on a recorder whose get_audio returns: the
\* chunks asked for are there.  A negative hop count is not followed further:
\* what _compute_spectrogram does with it is decided by mel_features.
GetNextSpectrogram ==
  /\ extractor = "constructed"
  /\ num_frames_hop >= 1
  /\ frames < MaxFrames
  /\ stream = "active"                      \* assert recorder.is_active
  /\ LET h == num_frames_hop
         required_num_samples == RequiredNumSamples(h)
         chunks == NumAudioChunks(required_num_samples - audio_buffer_len)
         new == CeilDiv(chunks * frames_per_chunk, downsample_factor)
         total == audio_buffer_len + new
         keep == required_num_samples - UnderlapSamples
     IN  /\ first_window' = Append(first_window, audio_buffer_first)
         /\ pulled' = pulled + new
         /\ audio_buffer_len' = CarriedLen(total, h)
         /\ audio_buffer_first' = audio_buffer_first + Min(keep, total)
         /\ LET rolled == WriteTail(ShiftLeft(spectrogram, h),
                                    NewSpectra(frames + 1, h))
                 work == CopyRef(BufferRef, frames + 1)
                 ref == ReturnedRef(work, frames + 1)
             IN  /\ spectrogram' =
                      IF work = BufferRef THEN Normalized(rolled) ELSE rolled
                 /\ frame_refs' = Append(frame_refs, ref)
                 /\ frames_out' = Append(frames_out, Quantized(Normalized(rolled)))
         /\ frame_shape' = <<Len(spectrogram'), num_mel_bins>>
         \* the argument of recorder.get_audio, line 116
         /\ num_audio_frames' = required_num_samples - audio_buffer_len
  /\ frames' = frames + 1
  /\ UNCHANGED <<downsample_factor, queueVars, cpc, need, got, waited,
                 callTicks, callPuts, ret, delivered, discarded, confVars,
                 devVars, sampleVars, argVars, extractor, lpc, stream, exc,
                 result, top3,
                 detection, last_detection, sink_calls, callbacks, result_calls, cands,
                 dispatches>>

\* The caller stores a value in the first row of the frame call k returned:
\* the store goes to the array the reference names.
CallerWrite ==
  \E k \in 1..Len(frame_refs) :
    LET ref == frame_refs[k]
    IN  /\ IF ref = BufferRef
             THEN /\ spectrogram[1] # WrittenRow
                  /\ spectrogram' = [spectrogram EXCEPT ![1] = WrittenRow]
                  /\ UNCHANGED frames_out
             ELSE /\ frames_out[ref][1] # WrittenRow
                  /\ frames_out' = [frames_out EXCEPT ![ref][1] = WrittenRow]
                  /\ UNCHANGED spectrogram
        /\ UNCHANGED <<downsample_factor, queueVars, recVars, confVars, devVars,
                       sampleVars, argVars, extractor, frame_shape,
                       audio_buffer_first, pulled, first_window, frame_refs,
                       loopVars>>

ExtractorNext ==
  \/ Construct
  \/ GetNextSpectrogram
  \/ CallerWrite

ExtractorSpec == ExtractorInit /\ [][ExtractorNext]_vars

\* get_next_spectrogram(recorder) on a recorder whose get_audio raises
\* TimeoutError: lines 142-143 have shifted the rolling buffer, the right-hand
\* side of lines 144-145 raises before the tail is assigned, and
\* _get_next_spectra is left at line 116, before _audio_buffer is assigned.
GetNextSpectrogramTimeout ==
  /\ extractor = "constructed"
  /\ num_frames_hop >= 1
  /\ frames < MaxFrames
  /\ stream = "active"                      \* assert recorder.is_active
  /\ ret = NoReturn
  /\ spectrogram' = ShiftLeft(spectrogram, num_frames_hop)
  /\ num_audio_frames' = RequiredNumSamples(num_frames_hop) - audio_buffer_len
  /\ ret' = CaptureTimeout
  /\ UNCHANGED <<downsample_factor, queueVars, cpc, need, got, waited,
                 callTicks, callPuts, delivered, discarded, confVars, devVars,
                 sampleVars, argVars, extractor, frame_shape,
                 audio_buffer_first, pulled, first_window, frame_refs,
                 frames_out, loopVars>>

ExtractorTimeoutNext ==
  \/ Construct
  \/ GetNextSpectrogram
  \/ GetNextSpectrogramTimeout

\* The extractor on a recorder whose get_audio times out once.
ExtractorTimeoutSpec == ExtractorInit /\ [][ExtractorTimeoutNext]_vars

----------------------------------------------------------------------------
(* classify_audio: scores are in hundredths *)

negative_threshold == 60
default_conf == 40

Labels == 0..(NumLabels - 1)

\* labels[i] for a Python index: a negative index counts from the end.
LabelAt(i) == IF i < 0 THEN NumLabels + i ELSE i

\* commands[label]['key']: the trigger key of a command label.
Key(label) == commands[label].key

\* np.argsort(-result)[:3]: the indices of three highest scores in descending
\* score order; the order of equal scores is left to the sort.
Top3Choices(r) ==
  {t \in [1..3 -> Labels] :
     /\ \A i, j \in 1..3 : i < j => (t[i] # t[j] /\ r[t[i]] >= r[t[j]])
     /\ \A l \in Labels : (\A i \in 1..3 : t[i] # l) => r[l] <= r[t[3]]}

\* Mutant: the scan keeps the last qualifying label instead of the first.
RECURSIVE ScanTop3_KeepLast(_, _, _, _, _)
ScanTop3_KeepLast(r, t, cmds, p, d) ==
  IF p > 3 THEN d
  ELSE IF t[p] \in DOMAIN cmds /\ t[p] # 0 /\ r[t[p]] > cmds[t[p]].conf
         THEN ScanTop3_KeepLast(r, t, cmds, p + 1, t[p])
         ELSE ScanTop3_KeepLast(r, t, cmds, p + 1, d)

\* for p in range(3): the scan of top3 from position p with detection d.
RECURSIVE ScanTop3(_, _, _, _, _)
ScanTop3(r, t, cmds, p, d) ==
  IF p > 3 THEN d
  ELSE IF t[p] \notin DOMAIN cmds
         THEN ScanTop3(r, t, cmds, p + 1, d)
         ELSE IF t[p] # 0 /\ r[t[p]] > cmds[t[p]].conf /\ d < 0
                THEN ScanTop3(r, t, cmds, p + 1, t[p])
                ELSE ScanTop3(r, t, cmds, p + 1, d)

\* detection after lines 271-280.
Detect(r, t, cmds) ==
  IF r[0] < negative_threshold THEN ScanTop3(r, t, cmds, 1, -1) ELSE -1

\* last_detection after lines 281-283.
ReturnToIdle(d, last) == IF d < 0 /\ last > 0 THEN 0 ELSE last

\* The condition of line 284.
Dispatches(d, last, cmds) == LabelAt(d) \in DOMAIN cmds /\ d # last

\* Mutant: a frame that dispatches nothing remembers its top label.
Debounce_RememberTop(r, t, last, cmds) ==
  LET d == Detect(r, t, cmds)
      idle == ReturnToIdle(d, last)
  IN  IF Dispatches(d, idle, cmds)
        THEN [detection |-> d, calls |-> <<cmds[LabelAt(d)].key>>, last |-> d]
        ELSE [detection |-> d, calls |-> <<>>, last |-> t[1]]

\* Lines 270-287: the frame's detection, the CommandSink calls and the new
\* last_detection.
Debounce(r, t, last, cmds) ==
  LET d == Detect(r, t, cmds)
      idle == ReturnToIdle(d, last)
  IN  IF Dispatches(d, idle, cmds)
        THEN [detection |-> d, calls |-> <<cmds[LabelAt(d)].key>>, last |-> d]
        ELSE [detection |-> d, calls |-> <<>>, last |-> idle]

\* Mutant: the CommandSink is served before the ResultSink.
FrameCallbacks_CommandFirst(results, keys) ==
     [i \in 1..Len(keys) |-> [sink |-> "command", arg |-> keys[i]]]
  \o [i \in 1..Len(results) |-> [sink |-> "result", arg |-> results[i]]]

\* The sink invocations of one loop body: result_callback(result, ...) of
\* lines 268-269 comes before the dectection_callback(...) of lines 284-286.
FrameCallbacks(results, keys) ==
     [i \in 1..Len(results) |-> [sink |-> "result", arg |-> results[i]]]
  \o [i \in 1..Len(keys) |-> [sink |-> "command", arg |-> keys[i]]]

\* def __exit__(self): the method takes no exception arguments.
ExitTakesExcInfo == FALSE

\* Leaving "with recorder:" on exception e: the interpreter calls
\* __exit__(exc_type, exc_value, traceback).
WithExit(e) ==
  IF ExitTakesExcInfo
    THEN [stream |-> "stopped", exc |-> e]      \* runs; returns None: e goes on
    ELSE [stream |-> stream, exc |-> "TypeError"]  \* the call itself fails

\* Score vectors with one clear peak: label i scores 0.90, the others a few
\* hundredths ([0.90, 0.05, 0.03, 0.02] is PeakAt(0)); Quiet has no peak.
Low(l) == IF l = 0 THEN 4 ELSE IF l = 1 THEN 5 ELSE IF l = 2 THEN 3
          ELSE IF l = 3 THEN 2 ELSE 1
PeakAt(i) == [l \in Labels |-> IF l = i THEN 90 ELSE Low(l)]
Quiet == [l \in Labels |-> Low(l)]

\* read_commands: a record without a confidence field.
DefaultCommand(l) == [key |-> l, conf |-> default_conf]

\* Inputs of a session followed through the queue: the last label is the one
\* command, and the scorer hears it, hears background or hears nothing.
SessionCommandTables == {[l \in {NumLabels - 1} |-> DefaultCommand(l)]}
SessionResults == {PeakAt(NumLabels - 1), PeakAt(0), Quiet}

\* Hop counts tried (both divide frame_length_spectra = 198).
HopChoices == {1, 6}

\* The sinks the callers configure: run_model.py a ResultSink, the others a
\* CommandSink; <<result_callback, dectection_callback>>.
SinkChoices == {<<TRUE, FALSE>>, <<FALSE, TRUE>>, <<TRUE, TRUE>>}

\* classify_audio up to "with recorder:".
ClassifyAudioInit ==
  /\ RecorderInit
  /\ ExtractorNotFollowed
  /\ num_frames_hop \in HopChoices
  /\ commands \in SessionCommandTables
  /\ \E sinks \in SinkChoices :
       /\ result_callback = sinks[1]
       /\ dectection_callback = sinks[2]
  /\ lpc = "new"
  /\ stream = "none"
  /\ exc = "none"
  /\ audio_buffer_len = 0
  /\ result = <<>>
  /\ top3 = <<>>
  /\ detection = -1
  /\ last_detection = -1
  /\ sink_calls = <<>>
  /\ callbacks = <<>>
  /\ FunctionsNotFollowed
  /\ frames = 0
  /\ result_calls = 0
  /\ cands = <<>>
  /\ dispatches = <<>>

\* A session on a device that can capture.
LoopInit ==
  /\ ClassifyAudioInit
  /\ max_input_channels = 1

\* Mutant: a device without input channels is accepted.
HasInputChannels_AllowZero(n) == n >= 0

\* __enter__, line 104: the device passes the test of its input channels.
HasInputChannels(n) == ~(n <= 0)

\* __enter__: the stream is opened with "stream_callback=self._enqueue_raw_audio"
\* commented out (line 116), so no callback is registered with the backend.
StreamCallbackRegistered == FALSE

\* recorder.__enter__ and line 262.
Enter ==
  /\ lpc = "new"
  /\ HasInputChannels(max_input_channels)
  /\ stream' = "active"
  /\ last_detection' = -1
  /\ lpc' = "loop"
  /\ UNCHANGED <<downsample_factor, queueVars, recVars, confVars, devVars, sampleVars, extVars, argVars, exc,
                 audio_buffer_len, result, top3, detection, sink_calls, callbacks, frames,
                 result_calls, cands, dispatches>>

\* Mutant: the flag is set once two frames have been processed.
timed_out_AfterTwoFrames(processed) == processed >= 2

\* timed_out when the loop test reads it: line 260 sets it to False and no
\* statement of the loop body assigns it.
timed_out(processed) == FALSE

\* "while not timed_out:" (line 263), then get_next_spectrogram up to the
\* first queue.get of get_audio; with the flag set the loop is left and the
\* with statement calls __exit__(None, None, None).
NextFrame ==
  /\ lpc = "loop"
  /\ frames < MaxFrames
  /\ IF ~timed_out(frames)
       THEN /\ stream = "active"           \* assert recorder.is_active
            /\ BeginGetAudio(RequiredNumSamples(num_frames_hop) - audio_buffer_len)
            /\ lpc' = "pull"
            /\ UNCHANGED <<stream, exc>>
       ELSE /\ LET out == WithExit("none")
               IN  /\ stream' = out.stream
                   /\ exc' = out.exc
                   /\ lpc' = IF out.exc = "none" THEN "returned" ELSE "raised"
            /\ UNCHANGED <<cpc, need, num_audio_frames, got, waited, callTicks,
                           callPuts>>
  /\ UNCHANGED <<downsample_factor, queueVars, ret, delivered, discarded,
                 confVars, devVars, sampleVars, extVars, argVars, audio_buffer_len, result, top3,
                 detection, last_detection, sink_calls, callbacks, frames, result_calls,
                 cands, dispatches>>

\* Lines 267-287 on a frame scored r whose argsort gives t.
LoopBody(r, t) ==
  /\ frames' = frames + 1
  /\ result_calls' = IF result_callback THEN result_calls + 1 ELSE result_calls
  /\ result' = r
  /\ callbacks' =
       FrameCallbacks(
         IF result_callback THEN <<r>> ELSE <<>>,
         IF dectection_callback
           THEN Debounce(r, t, last_detection, commands).calls ELSE <<>>)
  /\ IF dectection_callback
       THEN LET out == Debounce(r, t, last_detection, commands)
            IN  /\ top3' = IF r[0] < negative_threshold THEN t ELSE <<>>
                /\ detection' = out.detection
                /\ sink_calls' = out.calls
                /\ last_detection' = out.last
                /\ cands' = Append(cands, out.detection)
                /\ dispatches' = dispatches \o out.calls
       ELSE /\ sink_calls' = <<>>
            /\ UNCHANGED <<top3, detection, last_detection, cands, dispatches>>

\* get_audio returns; the rest of the loop body (lines 264-289).
ProcessFrame ==
  /\ lpc = "pull"
  /\ ReturnAudio
  /\ cpc' = "idle"
  /\ audio_buffer_len' =
       CarriedLen(audio_buffer_len + AudioLen(got), num_frames_hop)
  /\ \E r \in SessionResults : \E t \in Top3Choices(r) : LoopBody(r, t)
  /\ lpc' = "loop"
  /\ UNCHANGED <<confVars, devVars, sampleVars, extVars, argVars, stream, exc>>

\* get_audio raises TimeoutError: it leaves get_next_spectrogram, the loop and
\* the with statement.
SessionTimeout ==
  /\ lpc = "pull"
  /\ RaiseCaptureTimeout
  /\ cpc' = "idle"
  /\ LET out == WithExit("TimeoutError")
     IN  /\ stream' = out.stream
         /\ exc' = out.exc
  /\ lpc' = "raised"
  /\ UNCHANGED <<confVars, devVars, sampleVars, extVars, argVars, audio_buffer_len, result, top3, detection,
                 last_detection, sink_calls, callbacks, frames, result_calls, cands,
                 dispatches>>

\* The callback and the clock during a session on the open stream.  The
\* callback is invoked here once per captured chunk, as its signature (that of
\* a stream callback) intends; SessionSpec below follows the stream as
\* __enter__ opens it.
SessionEnqueue == stream = "active" /\ now < MaxSessionTime /\ EnqueueRawAudio
SessionSilence == stream = "active" /\ now < MaxSessionTime /\ Silence

LoopNext ==
  \/ SessionEnqueue
  \/ SessionSilence
  \/ Enter
  \/ NextFrame
  \/ GetChunk
  \/ ProcessFrame
  \/ SessionTimeout

LoopSpec == LoopInit /\ [][LoopNext]_vars

----------------------------------------------------------------------------
(* classify_audio on the stream as __enter__ opens it *)

\* maxInputChannels of the devices tried.
DeviceChannels == {0, 1, 2}

SessionInit ==
  /\ ClassifyAudioInit
  /\ max_input_channels \in DeviceChannels

\* recorder.__enter__ raises ValueError("Audio device has insufficient input
\* channels.") before self._audio.open; "with" does not call __exit__ then.
EnterInvalidDevice ==
  /\ lpc = "new"
  /\ ~HasInputChannels(max_input_channels)
  /\ exc' = "ValueError"
  /\ lpc' = "raised"
  /\ UNCHANGED <<downsample_factor, queueVars, recVars, confVars, devVars, sampleVars, extVars, argVars, stream,
                 audio_buffer_len, result, top3, detection, last_detection,
                 sink_calls, callbacks, frames, result_calls, cands, dispatches>>

\* The backend captures one chunk on the open stream.  A stream opened with
\* a callback hands the chunk to _enqueue_raw_audio; a stream opened without
\* one keeps it in its own buffer, for stream.read().
BackendChunk ==
  /\ stream = "active"
  /\ now < MaxSessionTime
  /\ Elapse
  /\ captured' = captured + 1
  /\ IF StreamCallbackRegistered
       THEN PutRawAudio
       ELSE UNCHANGED <<raw_audio_queue, produced, enq, accepted, callPuts>>
  /\ UNCHANGED <<downsample_factor, cpc, need, num_audio_frames, got, ret, delivered,
                 discarded, confVars, max_input_channels, sampleVars, extVars, argVars,
                 loopVars>>

\* No chunk is ever put in the queue of this stream, so queue.get never finds
\* one: the steps that follow a dequeue (GetChunk, ProcessFrame) cannot occur.
SessionNext ==
  \/ Enter
  \/ EnterInvalidDevice
  \/ BackendChunk
  \/ SessionSilence
  \/ NextFrame
  \/ SessionTimeout

SessionSpec == SessionInit /\ [][SessionNext]_vars

----------------------------------------------------------------------------
(* The candidate selection of classify_audio (lines 271-280) on its own *)

\* Scores and thresholds tried, in hundredths: 0.60 is negative_threshold,
\* 0.40 the default confidence.
DetectScores == {40, 50, 60, 90}
DetectConfs == {40, 60}

\* read_commands: any set of labels, each with a confidence of its own.
DetectCommandTables ==
  UNION {{[l \in S |-> [key |-> l, conf |-> f[l]]] : f \in [S -> DetectConfs]} :
           S \in SUBSET Labels}

\* A frame has been scored: result holds the scorer's output.
DetectInit ==
  /\ RecorderInit
  /\ ExtractorNotFollowed
  /\ downsample_factor = 1
  /\ max_input_channels = 1
  /\ num_frames_hop = 33
  /\ commands \in DetectCommandTables
  /\ result_callback = FALSE
  /\ dectection_callback = TRUE
  /\ lpc = "scored"
  /\ stream = "active"
  /\ exc = "none"
  /\ audio_buffer_len = 0
  /\ result \in [Labels -> DetectScores]
  /\ top3 = <<>>
  /\ detection = -1
  /\ last_detection = -1
  /\ sink_calls = <<>>
  /\ callbacks = <<>>
  /\ FunctionsNotFollowed
  /\ frames = 0
  /\ result_calls = 0
  /\ cands = <<>>
  /\ dispatches = <<>>

\* Lines 271-280 on the scored frame.
DetectFrame ==
  /\ lpc = "scored"
  /\ \E t \in Top3Choices(result) :
       /\ top3' = t
       /\ detection' = Detect(result, t, commands)
  /\ lpc' = "detected"
  /\ UNCHANGED <<downsample_factor, queueVars, recVars, confVars, devVars, sampleVars, extVars, argVars, stream, exc,
                 audio_buffer_len, result, last_detection, sink_calls, callbacks, frames,
                 result_calls, cands, dispatches>>

DetectNext == DetectFrame

DetectSpec == DetectInit /\ [][DetectNext]_vars

----------------------------------------------------------------------------
(* The loop body over frames of every kind: the recorder always returns *)

\* Command tables tried: none, one label, the last label, two labels; the
\* labels left out are labels of the model that are no commands.
DebounceCommandTables ==
  {[l \in S |-> DefaultCommand(l)] :
     S \in {{}, {1}, {2}, {NumLabels - 1}, {1, NumLabels - 1}}}

\* Scores tried: a clear peak at each label, and no peak.
DebounceResults == {PeakAt(i) : i \in Labels} \cup {Quiet}

\* classify_audio at the head of its loop, line 263.
DebounceInit ==
  /\ RecorderInit
  /\ downsample_factor = 1
  /\ ExtractorNotFollowed
  /\ FunctionsNotFollowed
  /\ max_input_channels = 1
  /\ num_frames_hop = 33
  /\ commands \in DebounceCommandTables
  /\ \E sinks \in SinkChoices :
       /\ result_callback = sinks[1]
       /\ dectection_callback = sinks[2]
  /\ lpc = "loop"
  /\ stream = "active"
  /\ exc = "none"
  /\ audio_buffer_len = 0
  /\ result = <<>>
  /\ top3 = <<>>
  /\ detection = -1
  /\ last_detection = -1
  /\ sink_calls = <<>>
  /\ callbacks = <<>>
  /\ frames = 0
  /\ result_calls = 0
  /\ cands = <<>>
  /\ dispatches = <<>>

\* One pass of the loop body on a frame the extractor returned.
ClassifyFrame ==
  /\ lpc = "loop"
  /\ frames < MaxFrames
  /\ \E r \in DebounceResults : \E t \in Top3Choices(r) : LoopBody(r, t)
  /\ UNCHANGED <<downsample_factor, queueVars, recVars, confVars, devVars,
                 sampleVars, extVars, argVars, lpc, stream, exc,
                 audio_buffer_len>>

DebounceNext == ClassifyFrame

DebounceSpec == DebounceInit /\ [][DebounceNext]_vars

----------------------------------------------------------------------------
(* Functions followed on their own: no recorder, no session *)

NoSession ==
  /\ RecorderInit
  /\ downsample_factor = 1
  /\ ExtractorNotFollowed
  /\ max_input_channels = 1
  /\ num_frames_hop = 33
  /\ commands = <<>>
  /\ result_callback = FALSE
  /\ dectection_callback = FALSE
  /\ lpc = "none"
  /\ stream = "none"
  /\ exc = "none"
  /\ audio_buffer_len = 0
  /\ result = <<>>
  /\ top3 = <<>>
  /\ detection = -1
  /\ last_detection = -1
  /\ sink_calls = <<>>
  /\ callbacks = <<>>
  /\ frames = 0
  /\ result_calls = 0
  /\ cands = <<>>
  /\ dispatches = <<>>

----------------------------------------------------------------------------
(* get_next_spectrogram, lines 150-155: the values of one mel-bin column *)

\* self._norm_factor (line 66).
norm_factor == 3

\* q[lo] + ... + q[hi].
RECURSIVE SumRange(_, _, _)
SumRange(q, lo, hi) ==
  IF lo > hi THEN 0
  ELSE IF lo = hi THEN q[lo]
  ELSE LET mid == (lo + hi) \div 2
       IN  SumRange(q, lo, mid) + SumRange(q, mid + 1, hi)

SumSeq(q) == SumRange(q, 1, Len(q))

Squares(q) == [i \in 1..Len(q) |-> q[i] * q[i]]

\* len(column)^2 times the variance np.std takes the root of.
ScaledVariance(col) ==
  Len(col) * SumSeq(Squares(col)) - SumSeq(col) * SumSeq(col)

\* len(column) times (x - mean), the value after line 150.
ScaledDeviation(col, i) == Len(col) * col[i] - SumSeq(col)

\* m <= ((x - mean) / (norm_factor * std) + 1) * 127.5, in exact arithmetic:
\* (2m - 255) * sqrt(V) <= (255 / norm_factor) * N, compared through squares.
AtMostValue(m, N, V) ==
  LET a == 2 * m - 255
      b == (255 \div norm_factor) * N
  IN  IF a <= 0 /\ b >= 0 THEN TRUE
      ELSE IF a > 0 /\ b < 0 THEN FALSE
      ELSE IF a > 0 THEN a * a * V <= b * b
      ELSE a * a * V >= b * b

\* Line 155 on a finite value: clipped to [0, 255], then truncated by
\* astype(np.uint8).  (float32 rounding can move a value that lies on an
\* integer boundary by one; it cannot move it out of 0..255.)
ClipToUint8(N, V) ==
  CHOOSE m \in 0..255 :
    /\ m = 0 \/ AtMostValue(m, N, V)
    /\ m = 255 \/ ~AtMostValue(m + 1, N, V)

\* Lines 150-155 on one column.  With np.std = 0 line 152 divides 0.0 by 0.0:
\* numpy warns and stores nan, nan passes lines 153-155 (np.minimum and
\* np.maximum propagate it) and astype(np.uint8) of nan is not defined: the
\* build decides which uint8 comes out.
NormalizeOutcomes(col) ==
  LET V == ScaledVariance(col)
  IN  IF V = 0
        THEN {[i \in 1..Len(col) |-> v] : v \in 0..255}
        ELSE {[i \in 1..Len(col) |-> ClipToUint8(ScaledDeviation(col, i), V)]}

\* Columns tried: a mel bin that is constant over the 198 spectra (silence,
\* the zeros of _clear_buffers), and one that steps from 0 to 1 for the last
\* k spectra.
ConstantColumn(v) == [i \in 1..frame_length_spectra |-> v]
StepColumn(k) ==
  [i \in 1..frame_length_spectra |-> IF i > frame_length_spectra - k THEN 1 ELSE 0]
ColumnChoices ==
  {ConstantColumn(0), ConstantColumn(5)}
    \cup {StepColumn(k) : k \in {1, 2, 99, 196, 197}}

NormalizeInit ==
  /\ NoSession
  /\ ReadCommandsNotFollowed
  /\ OutputTensorNotFollowed
  /\ column \in ColumnChoices
  /\ frame_column = <<>>

NormalizeColumn ==
  /\ frame_column = <<>>
  /\ frame_column' \in NormalizeOutcomes(column)
  /\ UNCHANGED <<downsample_factor, queueVars, recVars, confVars, devVars,
                 sampleVars, extVars, loopVars, column, commands_file,
                 read_outcome, output_data, output_details>>

NormalizeNext == NormalizeColumn

NormalizeSpec == NormalizeInit /\ [][NormalizeNext]_vars

----------------------------------------------------------------------------
(* read_commands *)

\* float(text), in hundredths; ok = FALSE: float raises ValueError.
FloatOf(text) ==
  CASE text = "0"    -> [ok |-> TRUE, value |-> 0]
    [] text = "0.25" -> [ok |-> TRUE, value |-> 25]
    [] text = "1"    -> [ok |-> TRUE, value |-> 100]
    [] text = "1.5"  -> [ok |-> TRUE, value |-> 150]
    [] text = "-0.2" -> [ok |-> TRUE, value |-> -20]
    [] OTHER         -> [ok |-> FALSE, value |-> 0]

\* Lines 171-173: the entry of one line whose confidence float() accepts.
CommandOf(key, confidence) ==
  IF confidence # "" /\ 0 <= FloatOf(confidence).value
                     /\ FloatOf(confidence).value <= 100
    THEN [key |-> key, conf |-> FloatOf(confidence).value]
    ELSE [key |-> key, conf |-> default_conf]

\* commands[command] = entry.
Store(table, command, entry) ==
  [c \in DOMAIN table \cup {command} |-> IF c = command THEN entry ELSE table[c]]

\* The loop of lines 170-173 from line i on: "command, key, confidence"
\* unpacks exactly three fields, float() raises on text that is no number.
RECURSIVE ReadLines(_, _, _)
ReadLines(lines, i, table) ==
  IF i > Len(lines) THEN [outcome |-> "ok", commands |-> table]
  ELSE IF Len(lines[i]) # 3
         THEN [outcome |-> "ValueError", commands |-> <<>>]
  ELSE IF lines[i][3] # "" /\ ~FloatOf(lines[i][3]).ok
         THEN [outcome |-> "ValueError", commands |-> <<>>]
  ELSE ReadLines(lines, i + 1,
                 Store(table, lines[i][1], CommandOf(lines[i][2], lines[i][3])))

\* l.rstrip().split(',') of the lines tried: label and key, then no third
\* field, an empty one, a number inside or outside [0, 1], text that is no
\* number, or a fourth field.
ConfidenceTexts == {"", "0", "0.25", "1", "1.5", "-0.2", "abc"}
LabelKeys == {<<"left", "KEY_LEFT">>, <<"right", "KEY_RIGHT">>}
FileLines ==
  {lk : lk \in LabelKeys}
    \cup {lk \o <<c>> : lk \in LabelKeys, c \in ConfidenceTexts}
    \cup {lk \o <<"0.25", "x">> : lk \in LabelKeys}
CommandFiles ==
  {<<l>> : l \in FileLines} \cup {<<l1, l2>> : l1 \in FileLines, l2 \in FileLines}

CommandInit ==
  /\ NoSession
  /\ NormalizeNotFollowed
  /\ OutputTensorNotFollowed
  /\ commands_file \in CommandFiles
  /\ read_outcome = "none"

\* commands = read_commands(commands_file), model.py line 255.
ReadCommands ==
  /\ read_outcome = "none"
  /\ LET out == ReadLines(commands_file, 1, <<>>)
     IN  /\ read_outcome' = out.outcome
         /\ commands' = out.commands
  /\ UNCHANGED <<downsample_factor, queueVars, recVars, num_frames_hop,
                 result_callback, dectection_callback, devVars, sampleVars,
                 extVars, loopVars, column, frame_column, commands_file,
                 output_data, output_details>>

CommandNext == ReadCommands

CommandSpec == CommandInit /\ [][CommandNext]_vars

----------------------------------------------------------------------------
(* output_tensor: scales are in 1/256, values are fractions *)

\* output_data - zero_point: a uint8 array minus a Python int that fits uint8
\* is a uint8 array, the difference wraps modulo 256.
Subtract(dtype, raw, zero_point) ==
  IF dtype = "uint8" THEN (raw - zero_point) % 256 ELSE raw - zero_point

\* Lines 181-190 on one element of the output.
OutputTensor(data, details, l) ==
  LET q == details.quantization
      raw == data.values[l]
  IN  IF ~q.present THEN [num |-> raw, den |-> 1]
      ELSE IF q.scale = 0
             THEN [num |-> Subtract(data.dtype, raw, q.zero_point), den |-> 1]
      ELSE [num |-> q.scale * Subtract(data.dtype, raw, q.zero_point),
            den |-> 256]

\* Output tensors tried: uint8 scores with the scales 0 and 1/256 and zero
\* points over the uint8 range, float32 scores (the engine reports (0.0, 0)),
\* and details without a quantization entry.
OutputValues ==
  {[l \in Labels |-> (b + 85 * l) % 256] : b \in {0, 3, 100, 128, 170, 255}}
ZeroPoints == {0, 1, 5, 128, 255}
Quantizations(dtype) ==
  {NoQuantization, [present |-> TRUE, scale |-> 0, zero_point |-> 0]}
    \cup (IF dtype = "uint8"
            THEN {[present |-> TRUE, scale |-> sc, zero_point |-> z] :
                    sc \in {0, 1}, z \in ZeroPoints}
            ELSE {})

OutputInit ==
  /\ NoSession
  /\ NormalizeNotFollowed
  /\ ReadCommandsNotFollowed
  /\ \E dtype \in {"uint8", "float32"} :
       /\ output_data \in {[dtype |-> dtype, values |-> v] : v \in OutputValues}
       /\ output_details \in
            {[quantization |-> q] : q \in Quantizations(dtype)}

\* result = get_output(interpreter): output_tensor(interpreter, 0).
GetOutput ==
  /\ result = <<>>
  /\ result' = [l \in Labels |-> OutputTensor(output_data, output_details, l)]
  /\ UNCHANGED <<downsample_factor, queueVars, recVars, confVars, devVars,
                 sampleVars, extVars, argVars, lpc, stream, exc,
                 audio_buffer_len, top3, detection, last_detection, sink_calls,
                 callbacks, frames, result_calls, cands, dispatches>>

OutputNext == GetOutput

OutputSpec == OutputInit /\ [][OutputNext]_vars

----------------------------------------------------------------------------
(* Properties of the audio queue and the recorder (checked under Spec) *)

IsPrefix(s, t) == Len(s) <= Len(t) /\ SubSeq(t, 1, Len(s)) = s

\* Number of chunks taken out of the queue so far.
Removed == Len(delivered) + Len(discarded) + Len(got)

\* C1: the queue never holds more than max_queue_chunks chunks; as long as
\* nothing has been dequeued, enqueues 1..C succeed and enqueue C+1 fails
\* with Overflow.
C1_QueueBounded ==
  /\ Len(raw_audio_queue) <= max_queue_chunks
  /\ Removed = 0 =>
       /\ Len(raw_audio_queue) = Min(produced, max_queue_chunks)
       /\ produced \in 1..max_queue_chunks => enq = "ok"
       /\ produced > max_queue_chunks => enq = "Overflow"

C1_Witness ==
  /\ Removed = 0
  /\ produced = max_queue_chunks + 1
  /\ enq = "Overflow"
  /\ Len(raw_audio_queue) = max_queue_chunks

\* C2: an enqueue on a full queue is never blocked, fails with Overflow and
\* leaves the queue as it was: the rejected chunk is not inserted and no
\* queued chunk is dropped or reordered.
C2_OverflowLeavesQueue ==
  /\ [][(produced' = produced + 1 /\ Len(raw_audio_queue) = max_queue_chunks)
          => /\ enq' = "Overflow"
             /\ raw_audio_queue' = raw_audio_queue
             /\ accepted' = accepted
             /\ <<cpc, got, ret>>' = <<cpc, got, ret>>]_vars
  /\ []((Len(raw_audio_queue) = max_queue_chunks /\ now < MaxTime)
          => ENABLED EnqueueRawAudio)

C2_Witness ==
  /\ enq = "Overflow"
  /\ Len(raw_audio_queue) = max_queue_chunks
  /\ accepted # <<>>
  /\ produced > Len(accepted)

\* C3 as stated: the chunks returned by successful get_audio calls are a
\* prefix of the accepted chunks, none skipped.
C3_DeliveredIsPrefix == IsPrefix(delivered, accepted)

\* Position of chunk c in the accepted history (0 when absent).
AcceptedIndex(c) ==
  IF \E i \in 1..Len(accepted) : accepted[i] = c
    THEN CHOOSE i \in 1..Len(accepted) : accepted[i] = c
    ELSE 0

\* C3 (amended): successive successful get_audio calls return accepted chunks
\* in capture order, never duplicated or reordered; each call returns a
\* contiguous run of the accepted chunks; the only accepted chunks skipped
\* are those dequeued by a call that failed with CaptureTimeout (so the
\* delivered chunks are a prefix while no call has timed out); the
\* timestamps returned are those of the call's first and last chunk.
C3_FifoDelivery ==
  /\ discarded = <<>> => IsPrefix(delivered, accepted)
  /\ \A i \in 1..Len(delivered) : AcceptedIndex(delivered[i]) > 0
  /\ \A i, j \in 1..Len(delivered) :
       i < j => AcceptedIndex(delivered[i]) < AcceptedIndex(delivered[j])
  /\ \A i \in 1..Len(delivered) : \A k \in 1..Len(accepted) :
       k < AcceptedIndex(delivered[i]) =>
         \/ \E j \in 1..Len(delivered) : delivered[j] = accepted[k]
         \/ \E j \in 1..Len(discarded) : discarded[j] = accepted[k]
  /\ ret.status = "ok" =>
       LET k == Len(ret.chunks)
           base == Len(delivered) - k
       IN  /\ k >= 1
           /\ base >= 0
           /\ InData(ret.chunks) = SubSeq(delivered, base + 1, Len(delivered))
           /\ \A i \in 1..(k - 1) :
                AcceptedIndex(delivered[base + i + 1]) =
                  AcceptedIndex(delivered[base + i]) + 1
           /\ ret.first_timestamp = ret.chunks[1].timestamp
           /\ ret.last_timestamp = ret.chunks[k].timestamp
           /\ ret.first_timestamp <= ret.last_timestamp

C3_Witness ==
  /\ ret.status = "ok"
  /\ Len(ret.chunks) >= 2
  /\ discarded # <<>>
  /\ ~IsPrefix(delivered, accepted)

\* C9: a get_audio call in which one dequeue waits timeout_factor chunk
\* intervals on an empty queue fails as a whole with CaptureTimeout and
\* returns no samples: at the deadline the call can only fail; a failed call
\* has lasted at least one timeout interval; a successful call never returns
\* fewer chunks than needed; and a call that cannot be served (no production
\* since it began, fewer chunks available than needed) cannot return.
C9_CaptureTimeout ==
  /\ TimedOut =>
       /\ ENABLED GetAudioTimeout
       /\ ~ENABLED GetChunk
       /\ ~ENABLED GetAudioReturn
  /\ (cpc = "idle" /\ ret.status = "CaptureTimeout") =>
       /\ ret.samples = 0
       /\ ret.chunks = <<>>
       /\ callTicks >= timeout_factor
  /\ (cpc = "idle" /\ ret.status = "ok") =>
       /\ Len(ret.chunks) = need
       /\ ret.samples * downsample_factor >= need * frames_per_chunk
  /\ (cpc = "get_audio" /\ callPuts = 0
        /\ Len(got) + Len(raw_audio_queue) < need) =>
       /\ ~ENABLED GetAudioReturn
       /\ (raw_audio_queue = <<>> /\ waited < timeout_factor)
            => ~ENABLED GetAudioTimeout

\* Two chunks were queued, more were needed, nothing was produced: the call
\* dequeued the two and failed.
C9_Witness ==
  /\ cpc = "idle"
  /\ ret.status = "CaptureTimeout"
  /\ callPuts = 0
  /\ need > 2
  /\ Len(discarded) = 2
  /\ delivered = <<>>
  /\ callTicks = timeout_factor

----------------------------------------------------------------------------
(* Properties of the classification loop *)

\* A processed frame of a session with a CommandSink.
FrameDone == lpc = "loop" /\ frames > 0 /\ dectection_callback

\* The debounce of section 4.4 on a sequence of per-frame candidates (-1: no
\* candidate), from the Active label a (0: Idle): the keys to dispatch.
RECURSIVE ExpectedDispatches(_, _)
ExpectedDispatches(cs, a) ==
  IF cs = <<>> THEN <<>>
  ELSE IF Head(cs) < 0 THEN ExpectedDispatches(Tail(cs), 0)
  ELSE IF Head(cs) = a THEN ExpectedDispatches(Tail(cs), a)
  ELSE <<Key(Head(cs))>> \o ExpectedDispatches(Tail(cs), Head(cs))

\* C4: the CommandSink is invoked exactly on the frames whose candidate is a
\* command label different from the Active label: never twice for consecutive
\* identical candidates and never on a frame without candidate.
C4_EdgeTriggeredDispatch ==
  dectection_callback =>
    /\ dispatches = ExpectedDispatches(cands, 0)
    /\ (FrameDone /\ detection < 0) => sink_calls = <<>>

\* C5: a frame whose score[0] is at least negative_threshold makes no
\* detection and invokes the CommandSink zero times, whatever last_detection
\* was.
C5_NegativeGate ==
  (FrameDone /\ result[0] >= negative_threshold) =>
    /\ detection = -1
    /\ sink_calls = <<>>

\* The label qualifies as a detection: a command other than label 0 whose
\* score is above the command's confidence.
Qualifies(l) ==
  /\ l # 0
  /\ l \in DOMAIN commands
  /\ result[l] > commands[l].conf

\* C6: below the negative threshold the detection is the first of the three
\* highest-scoring labels, in descending score order, that is a command with
\* a score strictly above its confidence; it is never label 0 and never a
\* label with three or more labels scoring higher; when none of the three
\* qualifies there is no detection.
C6_FirstQualifyingOfTop3 ==
  (lpc = "detected" /\ result[0] < negative_threshold) =>
    /\ \A i, j \in 1..3 :
         i < j => (top3[i] # top3[j] /\ result[top3[i]] >= result[top3[j]])
    /\ \A l \in Labels :
         (\A i \in 1..3 : top3[i] # l) => result[l] <= result[top3[3]]
    /\ IF \E p \in 1..3 : Qualifies(top3[p])
         THEN \E p \in 1..3 :
                /\ Qualifies(top3[p])
                /\ \A q \in 1..(p - 1) : ~Qualifies(top3[q])
                /\ detection = top3[p]
         ELSE detection = -1
    /\ detection # 0
    /\ detection > 0 =>
         Cardinality({l \in Labels : result[l] > result[detection]}) < 3

\* The second of the top three is detected: the first is a command that is
\* not above its confidence, and a label outside the three qualifies too.
C6_Witness ==
  /\ lpc = "detected"
  /\ result[0] < negative_threshold
  /\ detection = top3[2]
  /\ top3[1] \in DOMAIN commands
  /\ top3[1] # 0
  /\ \E l \in Labels : Qualifies(l) /\ \A i \in 1..3 : top3[i] # l

\* Number of times key k was handed to the CommandSink.
TimesDispatched(k) ==
  Cardinality({i \in 1..Len(dispatches) : dispatches[i] = k})

\* C7: a frame without candidate returns the loop to Idle, so the candidates
\* A, -, A dispatch A's key exactly twice; and the first candidate frame of a
\* session dispatches.
C7_IdleThenRedispatch ==
  dectection_callback =>
    /\ (FrameDone /\ detection < 0) => last_detection <= 0
    /\ \A a \in DOMAIN commands :
         cands = <<a, -1, a>> => TimesDispatched(Key(a)) = 2
    /\ \A a \in DOMAIN commands :
         (cands # <<>> /\ cands[Len(cands)] = a
            /\ \A i \in 1..(Len(cands) - 1) : cands[i] < 0)
           => dispatches = <<Key(a)>>

\* C8: a frame invokes the CommandSink at most once, and only with the key of
\* the frame's own candidate.
C8_KeyOfCandidate ==
  FrameDone =>
    /\ Len(sink_calls) <= 1
    /\ sink_calls # <<>> =>
         /\ detection > 0
         /\ detection \in DOMAIN commands
         /\ sink_calls[1] = Key(detection)

\* C10: a session ended by the capture timeout shows its caller that
\* TimeoutError, and does nothing more: no further frame, no sink call, no
\* retry.
C10_TimeoutReachesCaller ==
  lpc = "raised" =>
    /\ exc = "TimeoutError"
    /\ ret.status = "CaptureTimeout"
    /\ ~ENABLED NextFrame
    /\ ~ENABLED ProcessFrame
    /\ ~ENABLED GetChunk

----------------------------------------------------------------------------
(* Properties of the session: failures and the capture stream *)

\* An enqueue has failed on a full queue.
Overflowed == produced > Len(accepted)

C12_BackendChunksReachQueue ==
  /\ produced = captured
  /\ captured = now => ret.status # "CaptureTimeout"

\* C13: when the session has stopped, the stream opened for it has been
\* stopped and closed.
C13_StreamClosedWhenSessionStops ==
  (lpc = "raised" /\ exc # "ValueError") => stream = "stopped"

\* C17: on a device that reports zero input channels, open fails with
\* InvalidDevice (ValueError) and nothing else can happen: no stream is ever
\* opened, the backend captures nothing, nothing is enqueued, no frame is
\* pulled, and the failed open is not retried.
C17_InvalidDeviceFailsOpen ==
  max_input_channels = 0 =>
    /\ stream = "none"
    /\ captured = 0
    /\ produced = 0
    /\ raw_audio_queue = <<>>
    /\ frames = 0
    /\ cpc = "idle"
    /\ lpc \in {"new", "raised"}
    /\ lpc = "new" => (ENABLED EnterInvalidDevice /\ ~ENABLED Enter)
    /\ lpc = "raised" =>
         /\ exc = "ValueError"
         /\ ~ENABLED Enter
         /\ ~ENABLED EnterInvalidDevice
         /\ ~ENABLED NextFrame
         /\ ~ENABLED BackendChunk

C17_Witness ==
  /\ max_input_channels = 0
  /\ lpc = "raised"
  /\ exc = "ValueError"
  /\ stream = "none"

----------------------------------------------------------------------------
(* Properties of get_audio on a pre-loaded queue (checked under PreloadSpec) *)

\* C14: get_audio(n), n >= 1, on a queue pre-loaded with exactly
\* ceil(n * downsample / frames_per_chunk) chunks never waits for a chunk and
\* cannot time out; it returns, leaving the queue empty, an array of at least
\* n samples made of all the pre-loaded chunks.
C14_PreloadedGetAudio ==
  /\ ~Blocked
  /\ waited = 0
  /\ ~ENABLED GetAudioTimeout
  /\ cpc = "get_audio" => (ENABLED GetChunk \/ Len(got) = need)
  /\ ret.status \in {"none", "ok"}
  /\ ret.status = "ok" =>
       /\ raw_audio_queue = <<>>
       /\ delivered = accepted
       /\ Len(audio) >= num_audio_frames
       /\ ret.samples = Len(audio)

C14_Witness ==
  /\ ret.status = "ok"
  /\ num_audio_frames >= 1
  /\ downsample_factor > 1
  /\ Len(ret.chunks) = max_queue_chunks
  /\ Len(audio) = num_audio_frames

\* C15: the array get_audio returns holds, at index i, the sample at index
\* i * downsample_factor of the concatenation of the dequeued chunks in FIFO
\* order (halved by the gain of line 233), for every i with i * factor inside
\* the concatenation and for no other i: no sample is a mixture of
\* neighbours, and with factor 1 the array has the length and order of the
\* input.
C15_ExactStrideDecimation ==
  ret.status = "ok" =>
    LET k == downsample_factor
        first == (ret.chunks[1].in_data - 1) * frames_per_chunk
        inputLen == Len(ret.chunks) * frames_per_chunk
    IN  /\ \A i \in 1..Len(ret.chunks) : ret.chunks[i].in_data = accepted[i]
        /\ Len(audio) >= 1
        /\ (Len(audio) - 1) * k < inputLen
        /\ Len(audio) * k >= inputLen
        /\ \A i \in 0..(Len(audio) - 1) :
             /\ audio[i + 1].num = first + i * k
             /\ audio[i + 1].den = 2
        /\ k = 1 => Len(audio) = inputLen

C15_Witness ==
  /\ ret.status = "ok"
  /\ downsample_factor = 3
  /\ Len(ret.chunks) >= 2
  /\ Len(audio) * downsample_factor > Len(ret.chunks) * frames_per_chunk
  /\ audio[Len(audio)].num = Len(ret.chunks) * frames_per_chunk - 2

----------------------------------------------------------------------------
(* Properties of clear_queue (checked under ClearSpec) *)

InClearQueue == cpc \in {"clear_queue", "clear_get"}

\* C16: clear_queue never waits for a chunk, whether or not the callback
\* enqueues during the call: its get always finds the queue non-empty.  The
\* call dequeues the chunks it found plus those enqueued during it, returns
\* only on an empty queue (so with no enqueue during the call it has removed
\* exactly the chunks it found), and it does return.
C16_ClearNeverBlocks ==
  /\ [](~ClearBlocked)
  /\ [](cpc = "clear_get" => ENABLED ClearGet)
  /\ [](InClearQueue => Len(got) + Len(raw_audio_queue) = need + callPuts)
  /\ [][(InClearQueue /\ cpc' = "idle")
          => /\ raw_audio_queue' = <<>>
             /\ Len(got) = need + callPuts
             /\ now' = now]_vars
  /\ (InClearQueue ~> cpc = "idle")

\* A call that found two chunks or more, saw an enqueue, and returned.
C16_Witness ==
  /\ cpc = "idle"
  /\ need >= 2
  /\ callPuts >= 1
  /\ raw_audio_queue = <<>>
  /\ Len(discarded) = need + callPuts

----------------------------------------------------------------------------
(* Properties of the feature extractor (checked under ExtractorSpec) *)

\* C18: a hop count that does not evenly divide frame_length_spectra fails
\* construction with ConfigMismatch (ValueError), so a constructed extractor
\* has a hop count h with 1 <= h <= 198 and 198 % h = 0.
C18_HopDividesFrameDepth ==
  LET valid == /\ num_frames_hop \in 1..frame_length_spectra
               /\ frame_length_spectra % num_frames_hop = 0
  IN  /\ extractor = "constructed" => valid
      /\ (extractor # "none" /\ ~valid) => extractor = "ValueError"

\* The row the rolling buffer holds at index i after c calls with hop h: the
\* rows of the latest calls in order, zeros before them.
ExpectedRow(i, c, h) ==
  LET back == frame_length_spectra - i
      call == c - (back \div h)
  IN  IF call >= 1 THEN [call |-> call, row |-> h - (back % h)] ELSE ZeroRow

\* C19: for every hop count dividing 198, 1 and 198 included, the frame each
\* call returns has shape [198 x 32] and the rolling buffer keeps 198 rows,
\* after the first call as after later ones; the buffer holds the latest
\* spectra in order.
C19_FrameShape ==
  (extractor = "constructed" /\ num_frames_hop >= 1) =>
    /\ Len(spectrogram) = frame_length_spectra
    /\ frames >= 1 => frame_shape = <<frame_length_spectra, num_mel_bins>>
    /\ \A i \in 1..Len(spectrogram) :
         spectrogram[i] = ExpectedRow(i, frames, num_frames_hop)

\* The third call with hop count 198.
C19_Witness ==
  /\ extractor = "constructed"
  /\ num_frames_hop = frame_length_spectra
  /\ frames >= 3
  /\ frame_shape = <<frame_length_spectra, num_mel_bins>>
  /\ spectrogram[1] = [call |-> frames, row |-> 1]

\* The hop between analysis windows, in output-rate samples.
HopSamples == (spectrogram_hop_length_ms * audio_sample_rate_hz) \div 1000

\* C20: the first analysis window of each call starts num_frames_hop hops
\* after the first window of the call before, and the carried tail ends where
\* the samples pulled next begin.
C20_WindowsTile ==
  /\ \A k \in 1..(Len(first_window) - 1) :
       first_window[k + 1] = first_window[k] + num_frames_hop * HopSamples
  /\ audio_buffer_first + audio_buffer_len = pulled

----------------------------------------------------------------------------
(* Further properties of get_audio (checked under Spec) *)

\* max(1, ceil(n * downsample_factor / frames_per_chunk)).
ChunksNeeded(n) ==
  LET c == CeilDiv(n * downsample_factor, frames_per_chunk)
  IN  IF c >= 1 THEN c ELSE 1

\* C27: a successful get_audio(n) has removed exactly
\* max(1, ceil(n * downsample / frames_per_chunk)) chunks from the queue, one
\* chunk when n <= 0: the call returns exactly when it has dequeued that
\* many, and every chunk it dequeued is in what it returns.
C27_ChunksRemoved ==
  /\ [](Len(raw_audio_queue) + Removed = Len(accepted))
  /\ [](cpc = "get_audio" => Len(got) <= ChunksNeeded(num_audio_frames))
  /\ [][(cpc = "get_audio" /\ ret'.status = "ok" /\ cpc' = "idle")
          => /\ Len(got) = ChunksNeeded(num_audio_frames)
             /\ InData(ret'.chunks) = InData(got)
             /\ delivered' = delivered \o InData(got)
             /\ raw_audio_queue' = raw_audio_queue
             /\ num_audio_frames <= 0 => Len(ret'.chunks) = 1]_vars

\* get_audio(1025) at downsample factor 3 returned its four chunks, and
\* get_audio(-464) its one.
C27_Witness ==
  /\ cpc = "idle"
  /\ ret.status = "ok"
  /\ num_audio_frames <= 0
  /\ Len(ret.chunks) = 1
  /\ downsample_factor = 3
  /\ Len(delivered) = 5

\* C30: a get_audio call that fails with CaptureTimeout keeps out of the
\* queue every chunk it dequeued: the chunks are dropped, not put back and
\* never delivered by a later call, so the chunk a later call delivers first
\* does not follow the chunk delivered last before the failed call.
C30_TimeoutDiscardsDequeued ==
  /\ [][(cpc = "get_audio" /\ ret'.status = "CaptureTimeout" /\ cpc' = "idle")
          => /\ discarded' = discarded \o InData(got)
             /\ raw_audio_queue' = raw_audio_queue
             /\ delivered' = delivered]_vars
  /\ [](\A i \in 1..Len(discarded) :
          /\ \A j \in 1..Len(raw_audio_queue) :
               raw_audio_queue[j].in_data # discarded[i]
          /\ \A j \in 1..Len(delivered) : delivered[j] # discarded[i]
          /\ \A j \in 1..Len(got) : got[j].in_data # discarded[i])
  /\ [](\A i \in 1..(Len(delivered) - 1) :
          (\E j \in 1..Len(discarded) :
             delivered[i] < discarded[j] /\ discarded[j] < delivered[i + 1])
            => AcceptedIndex(delivered[i + 1]) > AcceptedIndex(delivered[i]) + 1)
  /\ [][discarded # <<>> => Len(discarded') >= Len(discarded)]_vars

\* A call dequeued chunks and timed out; a later call has delivered chunks
\* captured after them, next to chunks delivered before them.
C30_Witness ==
  /\ cpc = "idle"
  /\ ret.status = "ok"
  /\ \E i \in 1..(Len(delivered) - 1) : \E j \in 1..Len(discarded) :
       delivered[i] < discarded[j] /\ discarded[j] < delivered[i + 1]

----------------------------------------------------------------------------
(* Further properties of the extractor (checked under ExtractorSpec) *)

\* C21 as stated: after every successful get_next_spectrogram the carried
\* tail is exactly the underlap, (window - hop) * rate = 240 samples.
C21_TailIsUnderlap ==
  frames >= 1 => audio_buffer_len = UnderlapSamples

\* C21 amended: the carried tail starts the underlap (240 samples) before the
\* end of the samples just analysed and runs to the end of the samples pulled
\* so far: the trailing 240 samples of the analysed span followed by every
\* sample the recorder returned beyond it, so at least 240 samples.
C21_TailKeepsSurplus ==
  frames >= 1 =>
    /\ audio_buffer_first
         = first_window[frames] + RequiredNumSamples(num_frames_hop)
             - UnderlapSamples
    /\ audio_buffer_first + audio_buffer_len = pulled
    /\ audio_buffer_len >= UnderlapSamples

\* Two calls at the default hop: the tail carries surplus samples.
C21_Witness ==
  /\ num_frames_hop = 33
  /\ frames = 2
  /\ audio_buffer_len > UnderlapSamples

\* C28: a get_next_spectrogram call with hop h turns the rolling buffer R
\* (198 rows) into R' with R'[i] = R[i + h] for the first 198 - h rows and
\* the h new spectra, in time order, in the last h rows.
C28_BufferShift ==
  [][frames' = frames + 1 =>
       LET h == num_frames_hop
           D == frame_length_spectra
       IN  /\ Len(spectrogram') = D
           /\ \A i \in 1..(D - h) : spectrogram'[i] = spectrogram[i + h]
           /\ \A j \in 1..h :
                spectrogram'[D - h + j] = [call |-> frames', row |-> j]]_vars

\* Two calls with hop 66: a third of zero rows, then the rows of call 1, then
\* the rows of call 2.
C28_Witness ==
  /\ num_frames_hop = 66
  /\ frames = 2
  /\ spectrogram[66] = ZeroRow
  /\ spectrogram[67] = [call |-> 1, row |-> 1]
  /\ spectrogram[198] = [call |-> 2, row |-> 66]

\* C29: for every hop count the constructor accepts, the carried samples stay
\* within the underlap plus one chunk of surplus, and the number of samples
\* asked of the recorder is positive in every call.
C29_CarriedSamplesBounded ==
  frames >= 1 =>
    /\ num_audio_frames > 0
    /\ audio_buffer_len
         <= UnderlapSamples + CeilDiv(frames_per_chunk, downsample_factor)

----------------------------------------------------------------------------
(* The ResultSink (checked under LoopSpec) *)

\* C24: a configured ResultSink is invoked exactly once per processed frame,
\* with the score vector of that frame and before any CommandSink call of the
\* frame, whatever the scores, the thresholds and last_detection are and
\* whether or not a CommandSink is configured; without one it is never invoked.
C24_ResultSinkOncePerFrame ==
  LET results == {i \in 1..Len(callbacks) : callbacks[i].sink = "result"}
  IN  /\ result_calls = (IF result_callback THEN frames ELSE 0)
      /\ (result_callback /\ frames >= 1) =>
           /\ results = {1}
           /\ callbacks[1].arg = result
      /\ ~result_callback => results = {}
      /\ \A i \in 1..Len(callbacks) :
           callbacks[i].sink = "command" =>
             /\ dectection_callback
             /\ i = Len(callbacks)
             /\ <<callbacks[i].arg>> = sink_calls

\* Both sinks are configured and the second frame dispatched a key: the
\* ResultSink was called first, then the CommandSink.
C24_Witness ==
  /\ result_callback
  /\ dectection_callback
  /\ frames = 2
  /\ result_calls = 2
  /\ Len(callbacks) = 2
  /\ callbacks[2].sink = "command"

----------------------------------------------------------------------------
(* The frames handed out (checked under ExtractorSpec) *)

\* C22: the frame a call returns is a snapshot in an array of its own, never
\* the rolling buffer: later calls do not change an earlier frame, and a
\* caller storing into a returned frame changes neither the rolling buffer
\* nor any other frame.
C22_FrameIsSnapshot ==
  /\ [](\A k \in 1..Len(frame_refs) :
          /\ frame_refs[k] # BufferRef
          /\ \A j \in 1..(k - 1) : frame_refs[j] # frame_refs[k]
          /\ \A i \in 1..frame_length_spectra :
               LET snap == Quantized(<<ExpectedRow(i, k, num_frames_hop)>>)[1]
               IN  \/ frames_out[frame_refs[k]][i] = snap
                   \/ i = 1 /\ frames_out[frame_refs[k]][i] = WrittenRow)
  /\ []((extractor = "constructed" /\ num_frames_hop >= 1) =>
          \A i \in 1..Len(spectrogram) :
            spectrogram[i] = ExpectedRow(i, frames, num_frames_hop))
  /\ [][frames' = frames + 1 =>
          SubSeq(frames_out', 1, Len(frames_out)) = frames_out]_vars
  /\ [][(frames' = frames /\ frames_out' # frames_out) =>
          /\ spectrogram' = spectrogram
          /\ \E k \in 1..Len(frames_out) :
               \A j \in 1..Len(frames_out) : j # k => frames_out'[j] = frames_out[j]]_vars

\* The caller stored into the first frame, two more calls followed: the first
\* frame still holds the store and its snapshot, the buffer holds call 3.
C22_Witness ==
  /\ num_frames_hop = 66
  /\ frames = 3
  /\ frames_out[1][1] = WrittenRow
  /\ frames_out[1][198] = [call |-> 1, row |-> 66, form |-> "uint8"]
  /\ frames_out[3][1] = [call |-> 1, row |-> 1, form |-> "uint8"]
  /\ spectrogram[1] = [call |-> 1, row |-> 1]

----------------------------------------------------------------------------
(* The values of a frame (checked under NormalizeSpec) *)

\* C23: every value of the returned frame is an integer in [0, 255], and a
\* mel-bin column that is constant over the buffer (standard deviation 0) is
\* normalised with a divisor that does nothing: its values are the defined
\* ones, (0 + 1) * 127.5 as uint8, which is 127.
C23_ConstantColumnDefined ==
  frame_column # <<>> =>
    \A i \in 1..Len(frame_column) :
      /\ frame_column[i] \in 0..255
      /\ ScaledVariance(column) = 0 => frame_column[i] = 127

----------------------------------------------------------------------------
(* The command table (checked under CommandSpec) *)

\* A line of the kinds C25 speaks of: no confidence field, an empty one, or
\* one that is a number.
HasOptionalConfidence(line) ==
  \/ Len(line) = 2
  \/ Len(line) = 3 /\ (line[3] = "" \/ FloatOf(line[3]).ok)

\* The threshold C25 gives for such a line.
ThresholdOf(line) ==
  IF Len(line) = 2 \/ line[3] = "" THEN default_conf
  ELSE IF FloatOf(line[3]).value \in 0..100 THEN FloatOf(line[3]).value
  ELSE default_conf

\* C25: loading a command file gives each record the threshold 0.4 when its
\* confidence field is absent, empty or a number outside [0, 1], and the
\* number itself when it lies in [0, 1]; the key is the second field.
C25_DefaultThreshold ==
  (/\ read_outcome # "none"
   /\ \A i \in 1..Len(commands_file) : HasOptionalConfidence(commands_file[i]))
    => /\ read_outcome = "ok"
       /\ \A i \in 1..Len(commands_file) :
            (\A j \in (i + 1)..Len(commands_file) :
               commands_file[j][1] # commands_file[i][1])
              => /\ commands_file[i][1] \in DOMAIN commands
                 /\ commands[commands_file[i][1]]
                      = [key |-> commands_file[i][2],
                         conf |-> ThresholdOf(commands_file[i])]

----------------------------------------------------------------------------
(* The score vector (checked under OutputSpec) *)

\* C26: each score is the dequantized raw output, scale * (raw - zero_point)
\* when scale # 0 and raw - zero_point when scale = 0, for every raw value and
\* every reported (scale, zero_point); the raw output itself when the engine
\* reports no quantization.
C26_Dequantized ==
  result # <<>> =>
    \A l \in Labels :
      LET q == output_details.quantization
          raw == output_data.values[l]
      IN  result[l] =
            IF ~q.present THEN [num |-> raw, den |-> 1]
            ELSE IF q.scale = 0 THEN [num |-> raw - q.zero_point, den |-> 1]
            ELSE [num |-> q.scale * (raw - q.zero_point), den |-> 256]

----------------------------------------------------------------------------
(* The extractor after a timeout (checked under ExtractorTimeoutSpec) *)

\* C31: a get_next_spectrogram call that fails with CaptureTimeout leaves the
\* extractor as it was before the call: the carried samples and every row of
\* the rolling buffer are unchanged.
C31_TimeoutLeavesExtractor ==
  [][(ret = NoReturn /\ ret' = CaptureTimeout) =>
       /\ audio_buffer_len' = audio_buffer_len
       /\ audio_buffer_first' = audio_buffer_first
       /\ spectrogram' = spectrogram]_vars

----------------------------------------------------------------------------
(* The end of a session (checked under LoopSpec) *)

\* C32: the loop of classify_audio has no normal way out: while
\* get_next_spectrogram succeeds the loop goes on to the next frame, it never
\* returns, and a session that has ended has ended with an exception raised
\* by a failed get_next_spectrogram.
C32_NoNormalTermination ==
  /\ lpc # "returned"
  /\ lpc = "raised" => (exc # "none" /\ ret.status = "CaptureTimeout")
  /\ (lpc = "loop" /\ frames < MaxFrames) => ENABLED NextFrame
  /\ (lpc = "loop" /\ frames >= 1) => ret.status = "ok"

\* The loop has processed every frame the recorder could give and is still at
\* its head.
C32_Witness ==
  /\ lpc = "loop"
  /\ frames >= 3
  /\ ret.status = "ok"
  /\ exc = "none"

----------------------------------------------------------------------------
(* last_detection (checked under DebounceSpec) *)

\* C33: last_detection changes only in a pass of the loop body and only when
\* a CommandSink is configured, and its value is always a sentinel for "none"
\* (-1 or 0) or the index, above 0, of a label of the command table; it is
\* never the index of a label that is no command.
C33_LastDetectionIsCommand ==
  /\ [](\/ last_detection \in {-1, 0}
        \/ last_detection > 0 /\ last_detection \in DOMAIN commands)
  /\ [](~dectection_callback => last_detection = -1)
  /\ [][last_detection' # last_detection
          => (frames' = frames + 1 /\ dectection_callback)]_vars

\* Label 1 is the one command: it was dispatched, then a frame peaked at
\* label 2, which is no command, and last_detection went back to 0.
C33_Witness ==
  /\ dectection_callback
  /\ DOMAIN commands = {1}
  /\ cands = <<1, -1>>
  /\ result = PeakAt(2)
  /\ last_detection = 0

====
